---- MODULE Spec2Model ----
(***************************************************************************)
(* Model of src/algorithm/boundingbox.rs: get_bbox, the bounding box of a  *)
(* LineString<T> for T: Float.                                             *)
(*                                                                         *)
(* A Float value is modelled by an integer: the finite values are the      *)
(* integers a binary floating-point format with MantissaBits significand   *)
(* bits and exponents 0..MaxExp represents exactly, +infinity is the       *)
(* integer Infinity (larger than every finite value) and -infinity is      *)
(* NegInfinity.  The comparisons < and > of the code are then the integer  *)
(* comparisons.  NaN is left out: the specification leaves it undefined.   *)
(***************************************************************************)
EXTENDS Integers, Sequences, FiniteSets, TLC

\* ------------------------------------------------------------------------
\* Bounds of the model
\* ------------------------------------------------------------------------
MaxLen == 3
MaxCoord == 1
MantissaBits == 2
MaxExp == 2

\* ------------------------------------------------------------------------
\* T: Float
\* ------------------------------------------------------------------------
RECURSIVE Pow2(_)
Pow2(n) == IF n = 0 THEN 1 ELSE 2 * Pow2(n - 1)

\* T::infinity(): above every finite value of the format
Infinity == Pow2(MantissaBits + MaxExp)

\* T::neg_infinity()
NegInfinity == 0 - Infinity

Abs(a) == IF a < 0 THEN 0 - a ELSE a

\* the spacing of the representable values around the magnitude a
RECURSIVE Ulp(_)
Ulp(a) == IF a < Pow2(MantissaBits) THEN 1 ELSE 2 * Ulp(a \div 2)

\* round a magnitude to the nearest representable one, ties to even
RoundMag(a) ==
    LET u == Ulp(a)
        q == a \div u
        r == a % u
        up == \/ 2 * r > u
              \/ 2 * r = u /\ q % 2 = 1
        m == IF up THEN (q + 1) * u ELSE q * u
    IN IF m >= Infinity THEN Infinity ELSE m

\* round an exact result to the format (overflow gives an infinity)
Round(n) == IF n < 0 THEN 0 - RoundMag(0 - n) ELSE RoundMag(n)

IsFinite(a) == NegInfinity < a /\ a < Infinity

\* the values of the format, infinities included
Floats == {a \in NegInfinity..Infinity : Round(a) = a}

\* a + b of T: Float, for operands that are not opposite infinities
FAdd(a, b) ==
    IF ~IsFinite(a) THEN a
    ELSE IF ~IsFinite(b) THEN b
    ELSE Round(a + b)

\* ------------------------------------------------------------------------
\* types: Point, LineString, Bbox, Option
\* ------------------------------------------------------------------------
Point(px, py) == [x |-> px, y |-> py]

Bbox(x0, x1, y0, y1) == [xmin |-> x0, xmax |-> x1, ymin |-> y0, ymax |-> y1]

None == [some |-> FALSE]

Some(b) == [some |-> TRUE, box |-> b]

\* ------------------------------------------------------------------------
\* get_bbox, as pure operators
\* ------------------------------------------------------------------------
\* SingleBox with the fields of line 36-37 filled in positional order
SingleBox_Positional(p) == Bbox(p.x, p.y, p.x, p.y)

\* line 36-37: the box of a one-point line
SingleBox(p) == Bbox(p.x, p.x, p.y, p.y)

\* InitAcc with the running values started at zero
InitAcc_Zero == Bbox(0, 0, 0, 0)

\* line 39-40: the running values before the loop
InitAcc == Bbox(Infinity, NegInfinity, Infinity, NegInfinity)

\* line 43-47 (and 48-52): if c > max { max = c } else if c < min { min = c }
UpdateAxis(mx, mn, c) ==
    IF c > mx THEN <<c, mn>>
    ELSE IF c < mn THEN <<mx, c>>
    ELSE <<mx, mn>>

\* line 42-52: the body of the loop for one point
Update(acc, pnt) ==
    LET ux == UpdateAxis(acc.xmax, acc.xmin, pnt.x)
        uy == UpdateAxis(acc.ymax, acc.ymin, pnt.y)
    IN Bbox(ux[2], ux[1], uy[2], uy[1])

\* line 41-53: the loop over the first k points
RECURSIVE Fold(_, _)
Fold(v, k) == IF k = 0 THEN InitAcc ELSE Update(Fold(v, k - 1), v[k])

\* line 28-57: the whole function
get_bbox(v) ==
    IF Len(v) = 0 THEN None
    ELSE IF Len(v) = 1 THEN Some(SingleBox(v[1]))
    ELSE Some(Fold(v, Len(v)))

\* ------------------------------------------------------------------------
\* The inputs
\* ------------------------------------------------------------------------
Coords == (0 - MaxCoord)..MaxCoord

Points == {Point(px, py) : px \in Coords, py \in Coords}

\* linestring_test, line 94-97
TestLine == <<Point(1, 1), Point(2, 0 - 2), Point(0 - 3, 0 - 3), Point(0 - 4, 4)>>

\* linestring_test, line 98
TestBbox == Bbox(0 - 4, 2, 0 - 3, 4)

Lines == UNION {[1..n -> Points] : n \in 0..MaxLen} \cup {TestLine}

\* ------------------------------------------------------------------------
\* get_bbox, as a state machine: one call on the line vect
\* ------------------------------------------------------------------------
VARIABLES vect, pc, i, acc, result

vars == <<vect, pc, i, acc, result>>

Init ==
    /\ vect \in Lines
    /\ pc = "start"
    /\ i = 0
    /\ acc = InitAcc
    /\ result = None

\* line 32-34
ReturnNone ==
    /\ pc = "start"
    /\ Len(vect) = 0
    /\ result' = None
    /\ pc' = "done"
    /\ UNCHANGED <<vect, i, acc>>

\* ReturnSingle with the one-point line treated as the empty one
ReturnSingle_AsEmpty ==
    /\ pc = "start"
    /\ Len(vect) = 1
    /\ result' = None
    /\ pc' = "done"
    /\ UNCHANGED <<vect, i, acc>>

\* line 35-37
ReturnSingle ==
    /\ pc = "start"
    /\ Len(vect) = 1
    /\ result' = Some(SingleBox(vect[1]))
    /\ pc' = "done"
    /\ UNCHANGED <<vect, i, acc>>

\* line 38-40
EnterLoop ==
    /\ pc = "start"
    /\ Len(vect) > 1
    /\ acc' = InitAcc
    /\ i' = 0
    /\ pc' = "loop"
    /\ UNCHANGED <<vect, result>>

\* line 41-53: one iteration
Iterate ==
    /\ pc = "loop"
    /\ i < Len(vect)
    /\ acc' = Update(acc, vect[i + 1])
    /\ i' = i + 1
    /\ UNCHANGED <<vect, pc, result>>

\* line 54-55
ReturnBox ==
    /\ pc = "loop"
    /\ i = Len(vect)
    /\ result' = Some(acc)
    /\ pc' = "done"
    /\ UNCHANGED <<vect, i, acc>>

Next ==
    \/ ReturnNone
    \/ ReturnSingle
    \/ EnterLoop
    \/ Iterate
    \/ ReturnBox

Spec == Init /\ [][Next]_vars

TypeOK ==
    /\ vect \in Lines
    /\ pc \in {"start", "loop", "done"}
    /\ i \in 0..Len(vect)
    /\ result.some \in BOOLEAN

\* the state machine computes the function
MachineIsFunction == pc = "done" => result = get_bbox(vect)

\* linestring_test, line 92-100: the line of the test gives the box of the test
linestring_test == (pc = "done" /\ vect = TestLine) => result = Some(TestBbox)

\* ------------------------------------------------------------------------
\* Reference notions used to state the properties
\* ------------------------------------------------------------------------
MaxOffset == 4

SetMax(S) == CHOOSE m \in S : \A e \in S : e <= m

SetMin(S) == CHOOSE m \in S : \A e \in S : m <= e

\* the x-coordinates (y-coordinates) of the first k points of v
XS(v, k) == {v[j].x : j \in 1..k}

YS(v, k) == {v[j].y : j \in 1..k}

\* the true bounding box of a non-empty line
TrueBbox(v) ==
    Bbox(SetMin(XS(v, Len(v))), SetMax(XS(v, Len(v))),
         SetMin(YS(v, Len(v))), SetMax(YS(v, Len(v))))

\* the line v with its points taken in the order perm
Permuted(v, perm) == [k \in 1..Len(v) |-> v[perm[k]]]

\* the four corner points of a box
Corners(b) ==
    <<Point(b.xmin, b.ymin), Point(b.xmin, b.ymax),
      Point(b.xmax, b.ymin), Point(b.xmax, b.ymax)>>

\* the finite offsets of a translation
Offsets == {d \in Floats : IsFinite(d) /\ Abs(d) <= MaxOffset}

Translate(v, dx, dy) ==
    [k \in 1..Len(v) |-> Point(FAdd(v[k].x, dx), FAdd(v[k].y, dy))]

TranslateBox(b, dx, dy) ==
    Bbox(FAdd(b.xmin, dx), FAdd(b.xmax, dx), FAdd(b.ymin, dy), FAdd(b.ymax, dy))

\* the pass that seeds the four running values from the first point and
\* updates them with each subsequent point
RECURSIVE SeededFold(_, _)
SeededFold(v, k) ==
    IF k = 1 THEN SingleBox(v[1]) ELSE Update(SeededFold(v, k - 1), v[k])

\* ------------------------------------------------------------------------
\* Properties
\* ------------------------------------------------------------------------

\* C1: for a line of two or more finite points, the returned box has the
\* minimum and maximum of all x-coordinates as xmin and xmax and the minimum
\* and maximum of all y-coordinates as ymin and ymax.
\* Violated by get_bbox: a coordinate that raises the running maximum is
\* never compared against the running minimum (the else of line 45 and 50).
C1_BoxIsMinMax ==
    (pc = "done" /\ Len(vect) >= 2) => result = Some(TrueBbox(vect))

\* C2: for a non-empty line the returned box has xmin <= xmax and
\* ymin <= ymax.  Violated by get_bbox on an ascending line.
C2_MinLeqMax ==
    (pc = "done" /\ Len(vect) >= 1) =>
        /\ result.some
        /\ result.box.xmin <= result.box.xmax
        /\ result.box.ymin <= result.box.ymax

\* C3: the result is None if and only if the line is empty.
C3_NoneIffEmpty ==
    pc = "done" => (result = None <=> Len(vect) = 0)

C3_Witness ==
    /\ pc = "done"
    /\ Len(vect) = 0
    /\ result = None

\* C4: for a line of exactly one point p the result is the degenerate box
\* with xmin = xmax = p.x and ymin = ymax = p.y.
C4_OnePointBox ==
    (pc = "done" /\ Len(vect) = 1) =>
        /\ result.some
        /\ result.box.xmin = vect[1].x /\ result.box.xmax = vect[1].x
        /\ result.box.ymin = vect[1].y /\ result.box.ymax = vect[1].y

C4_Witness ==
    /\ pc = "done"
    /\ Len(vect) = 1
    /\ vect[1].x # vect[1].y
    /\ result.some

\* C5: order invariance: the box of every permutation of the line equals
\* the box of the line.  Violated by get_bbox: an ascending line and its
\* reverse give different boxes.
C5_OrderInvariant ==
    pc = "done" =>
        \A perm \in Permutations(1..Len(vect)) :
            get_bbox(Permuted(vect, perm)) = result

\* C6: containment: every point of a non-empty line lies inside the
\* returned box.  Violated by get_bbox when a running minimum is left at
\* +infinity or above the true minimum.
C6_Contains ==
    (pc = "done" /\ Len(vect) >= 1) =>
        /\ result.some
        /\ \A k \in 1..Len(vect) :
              /\ result.box.xmin <= vect[k].x /\ vect[k].x <= result.box.xmax
              /\ result.box.ymin <= vect[k].y /\ vect[k].y <= result.box.ymax

\* C7: idempotence: the box of the four corner points of the returned box,
\* listed in any order, equals the returned box.  Violated by get_bbox when
\* the returned box has a minimum left at +infinity.
C7_Idempotent ==
    (pc = "done" /\ Len(vect) >= 1) =>
        \A perm \in Permutations(1..4) :
            get_bbox(Permuted(Corners(result.box), perm)) = result

\* C8: translation equivariance: the box of the line translated by (dx, dy)
\* is the box of the line with dx added to xmin and xmax and dy added to
\* ymin and ymax.  Violated by get_bbox when the translation rounds two
\* ascending coordinates to the same value.
C8_TranslationEquivariant ==
    (pc = "done" /\ Len(vect) >= 1) =>
        \A dx \in Offsets, dy \in Offsets :
            get_bbox(Translate(vect, dx, dy)) =
                Some(TranslateBox(result.box, dx, dy))

\* C9: for a line of two or more points the pass as coded (running values
\* initialised to the infinities) returns the same box as the pass seeded
\* from the first point.  Violated by get_bbox on an ascending line.
C9_SameAsSeeded ==
    (pc = "done" /\ Len(vect) >= 2) =>
        result = Some(SeededFold(vect, Len(vect)))

\* C10: for a line of two or more finite points the returned box never
\* extends beyond the true bounding box: xmax and ymax are the true maxima,
\* xmin and ymin are not below the true minima; after iteration k of the
\* loop xmax and ymax are the maxima of the first k points and xmin and
\* ymin are +infinity or a coordinate of one of the first k points.
C10_NeverBeyondTrueBox ==
    /\ (pc = "loop" /\ i >= 1) =>
          /\ acc.xmax = SetMax(XS(vect, i))
          /\ acc.ymax = SetMax(YS(vect, i))
          /\ acc.xmin \in {Infinity} \cup XS(vect, i)
          /\ acc.ymin \in {Infinity} \cup YS(vect, i)
    /\ (pc = "done" /\ Len(vect) >= 2) =>
          /\ result.some
          /\ result.box.xmax = TrueBbox(vect).xmax
          /\ result.box.ymax = TrueBbox(vect).ymax
          /\ result.box.xmin >= TrueBbox(vect).xmin
          /\ result.box.ymin >= TrueBbox(vect).ymin

C10_Witness ==
    /\ pc = "done"
    /\ Len(vect) >= 2
    /\ result.some
    /\ result.box.xmin = Infinity
    /\ result.box.ymin = TrueBbox(vect).ymin

====
